---- MODULE Spec2Model ----
(***************************************************************************)
(* Model of maxcalorie.hh: filter_food_vector, greedy_max_calories and     *)
(* exhaustive_max_calories over a FoodVector (a vector of shared pointers  *)
(* to FoodItem objects).                                                   *)
(*                                                                         *)
(* A FoodItem is a record [weight, calories]; the description takes part   *)
(* in no decision and is left out.  The heap is a sequence of FoodItems,   *)
(* a shared_ptr<FoodItem> is an index into it, and a FoodVector is a       *)
(* sequence of such indices, so that "the same object" and "an equal       *)
(* object" are different things.  Weights and calories are integers and a  *)
(* calories/weight quotient is kept as the exact fraction; the rounding of *)
(* doubles is outside the model.                                           *)
(***************************************************************************)
EXTENDS Integers, Sequences, FiniteSets

\* Longest catalog of the small inputs.
MaxLen == 3
\* Item calories are -1..MaxCalories (non-negativity is documented, not enforced).
MaxCalories == 1
\* Capacities are -1..MaxCapacity.
MaxCapacity == 2
\* Width of `int`, the type of bitSize and bit in exhaustive_max_calories.
IntBits == 32

INT_MAX == (2^(IntBits - 2) - 1) + 2^(IntBits - 2)
INT_MIN == (-INT_MAX) - 1
\* Smallest catalog size n for which pow(2, n) does not fit an int.
SafetyBound == IntBits - 1
\* The enumeration loop is followed when it has at most this many counter
\* values: every catalog of at most MaxLen items is enumerated completely.
LoopCap == 2^MaxLen

VARIABLES
    heap,               \* the FoodItem objects allocated so far
    foods,              \* the FoodVector passed to the call
    total_weight,       \* the capacity passed to greedy / exhaustive
    min_calories,       \* filter_food_vector's arguments
    max_calories,
    total_size,
    percentItemVector,  \* greedy: the ranking after std::sort
    bitSize,            \* exhaustive: locals
    bit,
    BestFoodVector,
    bestTotalCalries,
    result,             \* the FoodVector returned
    call,               \* "none", "filter", "greedy", "exhaustive"
    pc                  \* "idle", "returned", "exhaustive_loop"

vars == <<heap, foods, total_weight, min_calories, max_calories, total_size,
          percentItemVector, bitSize, bit, BestFoodVector, bestTotalCalries,
          result, call, pc>>

-----------------------------------------------------------------------------
(* Data *)

\* Item weights: a light and a heavy item (FoodItem asserts weight_ounces > 0).
Weights == {1, 2}

FoodItem == [weight : Weights, calories : (-1)..MaxCalories]

\* The sequences over S of length at most n.
SeqsUpTo(S, n) == UNION {[1..k -> S] : k \in 0..n}

\* Catalogs as the loader builds them: one fresh object per row.
Catalogs == SeqsUpTo(FoodItem, MaxLen)
Capacities == (-1)..MaxCapacity

\* Catalogs of the smallest size at which pow(2, n) leaves the range of int,
\* each with a feasible subset of positive calories at the capacity below.
OverflowCatalogs ==
    {[i \in 1..SafetyBound |-> it] : it \in {x \in FoodItem : x.weight = 1 /\ x.calories > 0}}
OverflowCapacities == {1}

\* filter_food_vector reads only foodCalories().
FilterCatalogs == {c \in Catalogs : \A i \in 1..Len(c) : c[i].weight = 1}

FoodVectorOf(objects) == [i \in 1..Len(objects) |-> i]

\* The loop of sum_food_vector from element i on, with the running totals.
RECURSIVE SumLoop(_, _, _, _, _)
SumLoop(h, fv, i, weight, calories) ==
    IF i > Len(fv) THEN [total_weight |-> weight, total_calories |-> calories]
    ELSE SumLoop(h, fv, i + 1, weight + h[fv[i]].weight, calories + h[fv[i]].calories)

sum_food_vector(h, fv) == SumLoop(h, fv, 1, 0, 0)

-----------------------------------------------------------------------------
(* filter_food_vector *)

\* A faulty variant of InRange (exclusive ends), which C9 must tell apart.
InRangeStrict(item, lo, hi) == item.calories > lo /\ item.calories < hi

InRange(item, lo, hi) == item.calories >= lo /\ item.calories <= hi

RECURSIVE FilterLoop(_, _, _, _, _, _, _)
FilterLoop(h, source, i, lo, hi, size, filtered) ==
    IF i > Len(source) THEN filtered
    ELSE IF InRange(h[source[i]], lo, hi)
         THEN IF Len(filtered) < size
              THEN FilterLoop(h, source, i + 1, lo, hi, size, Append(filtered, source[i]))
              ELSE filtered
         ELSE FilterLoop(h, source, i + 1, lo, hi, size, filtered)

filter_food_vector ==
    /\ pc = "idle"
    /\ \E objects \in FilterCatalogs, lo \in (-1)..MaxCalories, hi \in (-1)..MaxCalories,
          size \in (-1)..MaxLen :
          /\ heap' = objects
          /\ foods' = FoodVectorOf(objects)
          /\ min_calories' = lo
          /\ max_calories' = hi
          /\ total_size' = size
          /\ result' = FilterLoop(objects, FoodVectorOf(objects), 1, lo, hi, size, <<>>)
    /\ call' = "filter"
    /\ pc' = "returned"
    /\ UNCHANGED <<total_weight, percentItemVector, bitSize, bit, BestFoodVector,
                   bestTotalCalries>>

-----------------------------------------------------------------------------
(* greedy_max_calories *)

percentItem(food) ==
    [percent |-> [num |-> food.calories, den |-> food.weight], item |-> food]

\* firstSet.percent > secondSet.percent, on the exact quotients (den > 0).
sortPercentage(firstSet, secondSet) ==
    firstSet.percent.num * secondSet.percent.den
        > secondSet.percent.num * firstSet.percent.den

RemoveAt(s, i) == SubSeq(s, 1, i - 1) \o SubSeq(s, i + 1, Len(s))

\* std::sort: some permutation of v in which no element is ordered before an
\* earlier one; the order of elements that compare equivalent is unspecified.
RECURSIVE StdSort(_)
StdSort(v) ==
    IF v = <<>> THEN {<<>>}
    ELSE LET first == {i \in 1..Len(v) :
                          /\ \A j \in 1..Len(v) : ~sortPercentage(v[j], v[i])
                          /\ \A j \in 1..(i - 1) : v[j] # v[i]}
         IN  UNION {{<<v[i]>> \o rest : rest \in StdSort(RemoveAt(v, i))} : i \in first}

\* Faulty variants of Fits, which C1 and C4 must tell apart.
FitsOffByOne(tempWeight, limit) == tempWeight <= limit + 1

FitsStrict(tempWeight, limit) == tempWeight < limit

\* tempWeight <= total_weight
Fits(tempWeight, limit) == tempWeight <= limit

RECURSIVE GreedyLoop(_, _, _, _, _)
GreedyLoop(v, i, capacity, limit, picked) ==
    IF i > Len(v) THEN picked
    ELSE LET tempWeight == capacity + v[i].item.weight
         IN  IF Fits(tempWeight, limit)
             THEN GreedyLoop(v, i + 1, capacity + v[i].item.weight, limit,
                             Append(picked, v[i].item))
             ELSE GreedyLoop(v, i + 1, capacity, limit, picked)

greedy_max_calories ==
    /\ pc = "idle"
    /\ \E objects \in Catalogs, limit \in Capacities :
          LET unsorted == [i \in 1..Len(objects) |-> percentItem(objects[i])]
          IN  \E sorted \in StdSort(unsorted) :
                 \E copies \in {GreedyLoop(sorted, 1, 0, limit, <<>>)} :
                     /\ foods' = FoodVectorOf(objects)
                     /\ total_weight' = limit
                     /\ percentItemVector' = sorted
                     \* new FoodItem(percentItemVector[i].item): fresh objects
                     /\ heap' = objects \o copies
                     /\ result' = [k \in 1..Len(copies) |-> Len(objects) + k]
    /\ call' = "greedy"
    /\ pc' = "returned"
    /\ UNCHANGED <<min_calories, max_calories, total_size, bitSize, bit,
                   BestFoodVector, bestTotalCalries>>

-----------------------------------------------------------------------------
(* exhaustive_max_calories *)

\* int bitSize = pow(2, foods.size()): exact while the power fits an int;
\* otherwise the conversion is undefined, and builds differ: the low bit
\* pattern (INT_MIN, or 0 for larger sizes) or the saturated value.
BitSizeOutcomes(n) ==
    IF n < SafetyBound THEN {2^n} ELSE {INT_MIN, 0, INT_MAX}

\* ((bit >> j) & 1) == 1, for bit >= 0
BitSet(b, j) == (b \div (2^j)) % 2 = 1

\* A faulty variant of Feasible, which C8 must tell apart.
FeasibleOffByOne(candTotalWeight, limit) == candTotalWeight <= limit + 1

Feasible(candTotalWeight, limit) == candTotalWeight <= limit

\* A faulty variant of Better (last subset wins a tie), which C10 must tell apart.
BetterOrEqual(candTotalCalories, best) == candTotalCalories >= best

Better(candTotalCalories, best) == candTotalCalories > best

\* Faulty variants of PushBack, which C7 and C6 must tell apart.
PushFront(vector, food) == <<food>> \o vector

PushTwice(vector, food) == Append(Append(vector, food), food)

PushBack(vector, food) == Append(vector, food)

RECURSIVE ItemLoop(_, _, _, _, _, _, _, _, _, _)

\* The second half of one pass of the j loop: the candidate built so far is
\* compared with the best, and the loop goes on with the next item.
RecordBest(h, fv, limit, b, j, cand, candW, candC, best, bestC) ==
    IF Feasible(candW, limit) /\ Better(candC, bestC)
    THEN ItemLoop(h, fv, limit, b, j + 1, cand, candW, candC, cand, candC)
    ELSE ItemLoop(h, fv, limit, b, j + 1, cand, candW, candC, best, bestC)

\* The j loop of one counter value b, from item j on: cand, candW and candC are
\* the candidate and its totals, best and bestC the best selection so far.
ItemLoop(h, fv, limit, b, j, cand, candW, candC, best, bestC) ==
    IF j >= Len(fv) THEN [vector |-> best, calories |-> bestC]
    ELSE IF BitSet(b, j)
         THEN RecordBest(h, fv, limit, b, j,
                         PushBack(cand, fv[j + 1]),
                         candW + h[fv[j + 1]].weight,
                         candC + h[fv[j + 1]].calories,
                         best, bestC)
         ELSE RecordBest(h, fv, limit, b, j, cand, candW, candC, best, bestC)

\* The counter loop from b up to (not including) stop; the candidate and its
\* totals are reset for each counter value.
RECURSIVE CounterLoop(_, _, _, _, _, _)
CounterLoop(h, fv, limit, b, stop, best) ==
    IF b >= stop THEN best
    ELSE CounterLoop(h, fv, limit, b + 1, stop,
                     ItemLoop(h, fv, limit, b, 0, <<>>, 0, 0, best.vector, best.calories))

exhaustive_max_calories ==
    /\ pc = "idle"
    /\ \E input \in (Catalogs \X Capacities) \cup (OverflowCatalogs \X OverflowCapacities) :
          LET objects == input[1]
              limit == input[2]
              fv == FoodVectorOf(objects)
              initial == [vector |-> <<>>, calories |-> 0]
          IN  \E size \in BitSizeOutcomes(Len(objects)) :
                 /\ heap' = objects
                 /\ foods' = fv
                 /\ total_weight' = limit
                 /\ bitSize' = size
                 /\ IF size <= LoopCap
                    THEN \E best \in {CounterLoop(objects, fv, limit, 0, size, initial)} :
                             /\ bit' = IF size > 0 THEN size ELSE 0
                             /\ BestFoodVector' = best.vector
                             /\ bestTotalCalries' = best.calories
                             /\ result' = best.vector
                             /\ pc' = "returned"
                    ELSE \* more counter values than are followed: the call is
                         \* left in its loop, before the first of them
                         /\ bit' = 0
                         /\ BestFoodVector' = initial.vector
                         /\ bestTotalCalries' = initial.calories
                         /\ result' = <<>>
                         /\ pc' = "exhaustive_loop"
    /\ call' = "exhaustive"
    /\ UNCHANGED <<min_calories, max_calories, total_size, percentItemVector>>

-----------------------------------------------------------------------------

Init ==
    /\ heap = <<>>
    /\ foods = <<>>
    /\ total_weight = 0
    /\ min_calories = 0
    /\ max_calories = 0
    /\ total_size = 0
    /\ percentItemVector = <<>>
    /\ bitSize = 0
    /\ bit = 0
    /\ BestFoodVector = <<>>
    /\ bestTotalCalries = 0
    /\ result = <<>>
    /\ call = "none"
    /\ pc = "idle"

Next ==
    \/ filter_food_vector
    \/ greedy_max_calories
    \/ exhaustive_max_calories

Spec == Init /\ [][Next]_vars

-----------------------------------------------------------------------------
(* Vocabulary of the properties *)

Min(a, b) == IF a <= b THEN a ELSE b

Returned(name) == call = name /\ pc = "returned"

SolverReturned == Returned("greedy") \/ Returned("exhaustive")

Totals == sum_food_vector(heap, result)

\* The FoodItem values a FoodVector points to.
ItemsOf(fv) == [i \in 1..Len(fv) |-> heap[fv[i]]]

Range(s) == {s[i] : i \in 1..Len(s)}

\* How many elements of s equal x.
Count(x, s) == Cardinality({i \in 1..Len(s) : s[i] = x})

NoDuplicates(s) == \A i \in 1..Len(s), j \in 1..Len(s) : s[i] = s[j] => i = j

\* a can be obtained from b by deleting elements.
RECURSIVE IsSubsequence(_, _)
IsSubsequence(a, b) ==
    IF a = <<>> THEN TRUE
    ELSE IF b = <<>> THEN FALSE
    ELSE IF Head(a) = Head(b) THEN IsSubsequence(Tail(a), Tail(b))
    ELSE IsSubsequence(a, Tail(b))

\* The elements of s at the positions in P, in order.
RECURSIVE Pick(_, _, _)
Pick(s, P, i) ==
    IF i > Len(s) THEN <<>>
    ELSE IF i \in P THEN <<s[i]>> \o Pick(s, P, i + 1)
    ELSE Pick(s, P, i + 1)

\* Sums over a set of catalog positions.
RECURSIVE WeightOf(_)
WeightOf(P) ==
    IF P = {} THEN 0
    ELSE LET j == CHOOSE x \in P : TRUE
         IN  heap[foods[j]].weight + WeightOf(P \ {j})

RECURSIVE CaloriesOf(_)
CaloriesOf(P) ==
    IF P = {} THEN 0
    ELSE LET j == CHOOSE x \in P : TRUE
         IN  heap[foods[j]].calories + CaloriesOf(P \ {j})

\* The counter value whose bit pattern is the position set P (bit j for item j).
RECURSIVE CounterOf(_)
CounterOf(P) ==
    IF P = {} THEN 0
    ELSE LET j == CHOOSE x \in P : TRUE
         IN  2^(j - 1) + CounterOf(P \ {j})

-----------------------------------------------------------------------------
(* C1: feasibility *)

\* C1 as stated: for every capacity, negative ones included, the selection
\* returned by greedy_max_calories and by exhaustive_max_calories weighs at
\* most the capacity.
C1_FeasibleForEveryCapacity ==
    SolverReturned => Totals.total_weight <= total_weight

\* C1 amended: for every capacity >= 0 the selection returned by either solver
\* weighs at most the capacity (below 0 the selection is empty and weighs 0).
C1_Feasible ==
    SolverReturned =>
        /\ total_weight >= 0 => Totals.total_weight <= total_weight
        /\ total_weight < 0 => result = <<>> /\ Totals.total_weight = 0

\* greedy filled the capacity exactly and left an item out.
C1_Witness ==
    /\ Returned("greedy")
    /\ total_weight > 0
    /\ Totals.total_weight = total_weight
    /\ Len(result) >= 2
    /\ Len(result) < Len(foods)

-----------------------------------------------------------------------------
(* C2: exactness *)

\* Catalog sizes the source comment declares safe ("must be less than 64").
StatedSizeBound == 64

\* C2: for every catalog of fewer than 64 items, the calories of the selection
\* exhaustive_max_calories returns are at least those of every subset of the
\* catalog that weighs at most the capacity.
C2_Exact ==
    (Returned("exhaustive") /\ Len(foods) < StatedSizeBound) =>
        \A P \in SUBSET (1..Len(foods)) :
            WeightOf(P) <= total_weight => Totals.total_calories >= CaloriesOf(P)

-----------------------------------------------------------------------------
(* C3: overflow guard *)

\* C3: a call of exhaustive_max_calories with a catalog so large that 2^n does
\* not fit the counter ends rejected, with CapacityExceededInputSize.
C3_OverflowRejected ==
    (call = "exhaustive" /\ Len(foods) >= SafetyBound) =>
        pc = "CapacityExceededInputSize"

-----------------------------------------------------------------------------
(* C4: greedy selection rule *)

\* Sum of the weights at a set of positions of the ranking.
RECURSIVE RankedWeightOf(_)
RankedWeightOf(P) ==
    IF P = {} THEN 0
    ELSE LET j == CHOOSE x \in P : TRUE
         IN  percentItemVector[j].item.weight + RankedWeightOf(P \ {j})

\* The positions of the ranking that one pass includes: position k is included
\* iff the weight of the included positions before it plus its own weight is at
\* most the capacity.
GreedyPasses ==
    {P \in SUBSET (1..Len(percentItemVector)) :
        \A k \in 1..Len(percentItemVector) :
            k \in P <=> RankedWeightOf({i \in P : i < k})
                           + percentItemVector[k].item.weight <= total_weight}

\* C4: greedy_max_calories ranks the catalog's items, each once, by descending
\* calories/weight and returns exactly the items one pass over the ranking
\* includes, where an item is included iff accumulated weight + its weight <=
\* capacity; rejected items stay rejected, later items that fit are included.
C4_GreedyRule ==
    Returned("greedy") =>
        /\ Len(percentItemVector) = Len(foods)
        /\ \A i \in 1..Len(foods) :
              /\ percentItemVector[i] = percentItem(percentItemVector[i].item)
              /\ Count(heap[foods[i]], ItemsOf(foods))
                    = Count(percentItem(heap[foods[i]]), percentItemVector)
        /\ \A i \in 1..Len(percentItemVector), j \in 1..Len(percentItemVector) :
              i < j => percentItemVector[i].percent.num * percentItemVector[j].percent.den
                         >= percentItemVector[j].percent.num * percentItemVector[i].percent.den
        /\ \E P \in GreedyPasses :
              ItemsOf(result) = [k \in 1..Len(Pick(percentItemVector, P, 1)) |->
                                    Pick(percentItemVector, P, 1)[k].item]

\* an item was rejected and a later, lighter item of the ranking was included.
C4_Witness ==
    /\ Returned("greedy")
    /\ \E P \in GreedyPasses :
          \E j \in 1..Len(percentItemVector), k \in 1..Len(percentItemVector) :
              /\ j < k
              /\ j \notin P
              /\ k \in P
              /\ percentItemVector[k].item.weight < percentItemVector[j].item.weight
              /\ \E i \in P : i < j

-----------------------------------------------------------------------------
(* C5: greedy tie-break *)

\* C5: in the ranking, the items of equal calories/weight stand in their
\* catalog order.
C5_StableRanking ==
    Returned("greedy") =>
        \A x \in Range(percentItemVector) :
            LET tied(e) == ~sortPercentage(e, x) /\ ~sortPercentage(x, e)
                catalog == [i \in 1..Len(foods) |-> percentItem(heap[foods[i]])]
            IN  SelectSeq(percentItemVector, tied) = SelectSeq(catalog, tied)

-----------------------------------------------------------------------------
(* C6: subset membership *)

\* C6 as stated: every item either solver returns is one of the catalog's own
\* objects, and none is returned twice.
C6_SameObjects ==
    SolverReturned =>
        /\ Range(result) \subseteq Range(foods)
        /\ NoDuplicates(result)

\* C6 amended: every item either solver returns equals (weight and calories)
\* an item of the catalog, each catalog position accounting for at most one
\* returned item; exhaustive_max_calories returns the catalog's own objects,
\* greedy_max_calories returns newly allocated copies.
C6_SameItems ==
    /\ Returned("exhaustive") =>
          /\ Range(result) \subseteq Range(foods)
          /\ NoDuplicates(result)
    /\ Returned("greedy") =>
          /\ Range(result) \cap Range(foods) = {}
          /\ NoDuplicates(result)
          /\ \A i \in 1..Len(result) :
                Count(heap[result[i]], ItemsOf(result))
                    <= Count(heap[result[i]], ItemsOf(foods))

\* exhaustive returned two of three equal items.
C6_Witness ==
    /\ Returned("exhaustive")
    /\ Len(foods) = 3
    /\ Len(result) = 2
    /\ \A i \in 1..Len(foods) : heap[foods[i]] = heap[foods[1]]

-----------------------------------------------------------------------------
(* C7: result order *)

\* C7 as stated: the selection either solver returns lists its items in
\* catalog order.
C7_CatalogOrder ==
    SolverReturned => IsSubsequence(ItemsOf(result), ItemsOf(foods))

\* C7 amended: exhaustive_max_calories returns its items in catalog order;
\* greedy_max_calories returns its items in the order of the ranking, by
\* descending calories/weight.
C7_Order ==
    /\ Returned("exhaustive") => IsSubsequence(result, foods)
    /\ Returned("greedy") =>
          /\ IsSubsequence(ItemsOf(result),
                           [i \in 1..Len(percentItemVector) |-> percentItemVector[i].item])
          /\ \A i \in 1..Len(result), j \in 1..Len(result) :
                i < j => ~sortPercentage(percentItem(heap[result[j]]),
                                         percentItem(heap[result[i]]))

\* exhaustive returned the first and the last of three items.
C7_Witness ==
    /\ Returned("exhaustive")
    /\ Len(foods) = 3
    /\ result = <<foods[1], foods[3]>>

-----------------------------------------------------------------------------
(* C8: degenerate input *)

\* C8: with an empty catalog, or a capacity of zero or less, either solver
\* returns normally, and returns the empty selection, whose totals are (0, 0).
C8_Degenerate ==
    (call \in {"greedy", "exhaustive"} /\ (foods = <<>> \/ total_weight <= 0)) =>
        /\ pc = "returned"
        /\ result = <<>>
        /\ Totals = [total_weight |-> 0, total_calories |-> 0]

\* exhaustive ran on three items of positive calories with capacity 0.
C8_Witness ==
    /\ Returned("exhaustive")
    /\ Len(foods) = 3
    /\ total_weight = 0
    /\ \A i \in 1..Len(foods) : heap[foods[i]].calories > 0

-----------------------------------------------------------------------------
(* C9: pre-filter *)

Matching ==
    LET wanted(food) == /\ min_calories <= heap[food].calories
                        /\ heap[food].calories <= max_calories
    IN  SelectSeq(foods, wanted)

\* C9: filter_food_vector returns the first total_size items of the source, in
\* source order, whose calories lie in [min_calories, max_calories]: all of
\* them when there are fewer, none when total_size <= 0; it allocates nothing
\* and the source holds the objects it held.
C9_Filter ==
    Returned("filter") =>
        /\ result = SubSeq(Matching, 1,
                           IF total_size <= 0 THEN 0 ELSE Min(total_size, Len(Matching)))
        /\ foods = FoodVectorOf(heap)

\* more items match than are asked for, after a first item that does not match.
C9_Witness ==
    /\ Returned("filter")
    /\ total_size >= 1
    /\ Len(Matching) > total_size
    /\ Matching[1] # foods[1]
    /\ \E i \in 1..Len(Matching) : heap[Matching[i]].calories = min_calories
    /\ \E i \in 1..Len(Matching) : heap[Matching[i]].calories = max_calories
    /\ min_calories < max_calories

-----------------------------------------------------------------------------
(* C10: exhaustive tie-break *)

Positions == 1..Len(foods)

\* The feasible subsets of positive calories.
Candidates ==
    {P \in SUBSET Positions : WeightOf(P) <= total_weight /\ CaloriesOf(P) > 0}

\* The subsets of greatest calories among them.
Maxima == {P \in Candidates : \A Q \in Candidates : CaloriesOf(P) >= CaloriesOf(Q)}

\* The enumeration that tests each counter value's subset once, when complete:
\* from counter b on, best being the best subset so far and bestC its calories.
RECURSIVE OncePerSubset(_, _, _)
OncePerSubset(b, best, bestC) ==
    IF b >= 2^Len(foods) THEN best
    ELSE IF /\ WeightOf({j \in Positions : (b \div 2^(j - 1)) % 2 = 1}) <= total_weight
            /\ CaloriesOf({j \in Positions : (b \div 2^(j - 1)) % 2 = 1}) > bestC
         THEN OncePerSubset(b + 1, {j \in Positions : (b \div 2^(j - 1)) % 2 = 1},
                            CaloriesOf({j \in Positions : (b \div 2^(j - 1)) % 2 = 1}))
         ELSE OncePerSubset(b + 1, best, bestC)

\* C10: for a catalog whose 2^n fits the counter, exhaustive_max_calories
\* returns, in catalog order, the feasible subset of greatest calories with the
\* smallest counter value, or nothing when no feasible subset has positive
\* calories; that is also what testing each subset once, when complete, returns.
C10_FirstBest ==
    (Returned("exhaustive") /\ Len(foods) < SafetyBound) =>
        /\ \E R \in {{j \in Positions : foods[j] \in Range(result)}},
              c \in {Totals.total_calories} :
              /\ result = Pick(foods, R, 1)
              /\ IF \E Q \in SUBSET Positions :
                        WeightOf(Q) <= total_weight /\ CaloriesOf(Q) > 0
                 THEN /\ WeightOf(R) <= total_weight
                      /\ \A Q \in SUBSET Positions :
                            WeightOf(Q) <= total_weight =>
                                \/ CaloriesOf(Q) < c
                                \/ CaloriesOf(Q) = c /\ CounterOf(R) <= CounterOf(Q)
                 ELSE result = <<>>
        /\ result = Pick(foods, OncePerSubset(0, {}, 0), 1)

\* two subsets tie for the greatest calories and the one met first is returned.
C10_Witness ==
    /\ Returned("exhaustive")
    /\ Len(foods) < SafetyBound
    /\ \E P \in Maxima : \E Q \in Maxima :
          /\ CounterOf(P) < CounterOf(Q)
          /\ result = Pick(foods, P, 1)
    /\ \E j \in Positions : heap[foods[j]].calories < 0

====
